---- MODULE Spec2Model ----
(***************************************************************************)
(* Model of the PI Web API front-end: the tag resolver and time-series     *)
(* client of DataLinkWrapper.py (PIClient) and the response normalizer of  *)
(* Graphs.py.                                                              *)
(***************************************************************************)
EXTENDS Integers, Sequences, FiniteSets, TLC

(***************************************************************************)
(* Bounds of the model.                                                    *)
(***************************************************************************)
\* PIClient instances alive at the same time.
NumClients == 2
\* Longest candidate list of a point lookup in the resolver specification.
MaxItems == 2
\* Longest candidate list of a point lookup in the client specification.
MaxClientItems == 1
MaxSeries == 2
MaxInner == 2
MaxRows == 3
MaxSamples == 2

(***************************************************************************)
(* lru_cache(maxsize=4096) of get_point_webid.  The capacity is scaled     *)
(* down from 4096 so that a full cache is reachable; nothing below depends *)
(* on its value other than through LruMaxsize.                             *)
(***************************************************************************)
LruMaxsize == 2

Clients == 1 .. NumClients

(***************************************************************************)
(* Strings whose letter-casing matters are sequences of characters.        *)
(***************************************************************************)
Tags == { <<"F", "O">>, <<"f", "o">>, <<"b", "a">> }
Names == { <<"F", "o">>, <<"f", "o">>, <<"b", "a">> }
WebIds == { "W1", "W2" }

SeqsUpTo(S, n) == UNION { [1 .. k -> S] : k \in 0 .. n }

\* str.lower() on one character.
LowerChar(ch) ==
    CASE ch = "F" -> "f"
      [] ch = "O" -> "o"
      [] ch = "B" -> "b"
      [] ch = "A" -> "a"
      [] OTHER -> ch

\* A resolver that compares names as given.
LowerAsGiven(s) == s

\* str.lower()
Lower(s) == [i \in 1 .. Len(s) |-> LowerChar(s[i])]

(***************************************************************************)
(* One candidate of a point lookup: a JSON object that may or may not      *)
(* carry "Name" and "WebId".  An absent key is has* = FALSE.               *)
(***************************************************************************)
Candidates ==
    { it \in [hasName : BOOLEAN, Name : Names \cup {<<>>},
              hasWebId : BOOLEAN, WebId : WebIds \cup {""}] :
        /\ it.hasName <=> it.Name # <<>>
        /\ ~it.hasWebId => it.WebId = "" }

\* HTTP status codes the provider answers with: those whose body the client
\* goes on to decode, and those it raises on without reading the body.
BodyStatuses == {200, 300}
ErrorStatuses == {404, 500}

(***************************************************************************)
(* What session.get produces: a transport exception, or a response with a  *)
(* status and a body that is a JSON object (with or without "Items") or    *)
(* not JSON at all.                                                        *)
(***************************************************************************)
TransportFailure ==
    [exc |-> TRUE, status |-> 0, json |-> FALSE, hasItems |-> FALSE, Items |-> <<>>]

Responses(itemLists) ==
    { [exc |-> FALSE, status |-> s, json |-> FALSE, hasItems |-> FALSE, Items |-> <<>>] :
        s \in BodyStatuses \cup ErrorStatuses }
    \cup { [exc |-> FALSE, status |-> s, json |-> TRUE, hasItems |-> FALSE, Items |-> <<>>] :
        s \in BodyStatuses }
    \cup { [exc |-> FALSE, status |-> s, json |-> TRUE, hasItems |-> TRUE, Items |-> l] :
        s \in BodyStatuses, l \in itemLists }

Replies(itemLists) == {TransportFailure} \cup Responses(itemLists)


(***************************************************************************)
(* State.                                                                  *)
(*   cache      the lru_cache of get_point_webid, shared by all instances: *)
(*              entries [key, webid] keyed by (instance, tag), least       *)
(*              recently used first                                        *)
(*              first                                                      *)
(*   pc         "idle", the request the running call is blocked on, or     *)
(*              "done" while the caller holds the call's outcome           *)
(*   call       the running (or last) call: operation, instance, tag       *)
(*   nLookup    point-lookup requests the call has issued                  *)
(*   nStream    stream requests the call has issued                        *)
(*   req        the last request handed to session.get                     *)
(*   lastReply  what session.get produced for it                           *)
(*   got        what _get made of lastReply                                *)
(*   result     what the call returned or raised                           *)
(***************************************************************************)
VARIABLES cache, pc, call, nLookup, nStream, req, lastReply, got, result

(***************************************************************************)
(* State of the response normalizer's specification (Graphs.py).           *)
(*   text       the payload handed to the normalizer                       *)
(*   ppc        "start", "parsed" after _parse_pi_response_to_df,          *)
(*              "fetched" after fetch_to_dataframe                         *)
(*   parsed     what _parse_pi_response_to_df(text) returned or raised     *)
(*   fetchArgs  the status execute_query returned and the params' datasets *)
(*              and output_unit                                            *)
(*   fetched    what fetch_to_dataframe returned or raised                 *)
(***************************************************************************)
VARIABLES text, ppc, parsed, fetchArgs, fetched

(***************************************************************************)
(* State of the resampling's specification (Graphs.py).                    *)
(*   rpc        "start", "done" after resample_timeseries                  *)
(*   frame      the DataFrame handed to resample_timeseries                *)
(*   rule       the interval (window width) and the aggregator             *)
(*   resampled  what resample_timeseries returned or raised                *)
(***************************************************************************)
VARIABLES rpc, frame, rule, resampled

(***************************************************************************)
(* State of the query entry points' specification (GUI.py, API_Calls.py,   *)
(* Graphs.py).                                                             *)
(*   qpc        "start", "done" after the entry point has run              *)
(*   form       the entry point and the values it is given                 *)
(*   params     the APIParams built, when one was built                    *)
(*   nHttp      the HTTP requests issued                                   *)
(*   outcome    what the entry point showed, returned or raised            *)
(***************************************************************************)
VARIABLES qpc, form, params, nHttp, outcome

clientVars == <<cache, pc, call, nLookup, nStream, req, lastReply, got, result>>
parseVars == <<text, ppc, parsed, fetchArgs, fetched>>
resampleVars == <<rpc, frame, rule, resampled>>
queryVars == <<qpc, form, params, nHttp, outcome>>
vars == <<clientVars, parseVars, resampleVars, queryVars>>

\* The resampling's and the entry points' variables while they do not run.
ResampleIdle ==
    /\ rpc = "off"
    /\ frame = [cols |-> {}, rows |-> <<>>]
    /\ rule = [interval |-> 0, how |-> ""]
    /\ resampled = [raised |-> "none", cols |-> {}, rows |-> <<>>]

QueryIdle ==
    /\ qpc = "off"
    /\ form = [entry |-> "none"]
    /\ params = [built |-> FALSE]
    /\ nHttp = 0
    /\ outcome = [kind |-> "none"]

Ops == {"get_point_webid", "arc_val", "recorded", "interpolated", "summary"}

\* The stream endpoint of each DataLink-like method.
Endpoint(op) ==
    CASE op = "arc_val" -> "value"
      [] op = "recorded" -> "recorded"
      [] op = "interpolated" -> "interpolated"
      [] op = "summary" -> "summary"
      [] OTHER -> "points"

NoCall == [op |-> "none", c |-> 1, tag |-> <<>>]
NoRequest == [endpoint |-> "none", webid |-> "", nameFilter |-> <<>>]
NoReply == [exc |-> FALSE, status |-> 0, json |-> FALSE, hasItems |-> FALSE, Items |-> <<>>]
NoOutcome == [kind |-> "none", hasItems |-> FALSE, Items |-> <<>>]
NoResult == [kind |-> "none", ret |-> "none", webid |-> "", hasItems |-> FALSE, Items |-> <<>>]

Raised(kind) == [kind |-> kind, hasItems |-> FALSE, Items |-> <<>>]

\* Response.raise_for_status(): raises HTTPError for 4xx and 5xx only.
RaiseForStatus(status) == 400 <= status /\ status < 600

(***************************************************************************)
(* PIClient._get.  wraps: whether the installed requests raises its own    *)
(* JSONDecodeError (a RequestException) from Response.json(), or lets the  *)
(* json module's ValueError through.                                       *)
(***************************************************************************)
Get(reply, wraps) ==
    IF reply.exc THEN Raised("PIWebAPIError")
    ELSE IF reply.status = 404 THEN Raised("PINotFound")
    ELSE IF RaiseForStatus(reply.status) THEN Raised("PIWebAPIError")
    ELSE IF ~reply.json
         THEN (IF wraps THEN Raised("PIWebAPIError") ELSE Raised("ValueError"))
    ELSE [kind |-> "ok", hasItems |-> reply.hasItems, Items |-> reply.Items]

\* dict.get("Items", [])
ItemsOf(data) == IF data.hasItems THEN data.Items ELSE <<>>

\* it.get("Name", "")
NameOf(it) == IF it.hasName THEN it.Name ELSE <<>>

\* it.get("WebId"): None and "" are both falsy
WebIdOf(it) == IF it.hasWebId THEN it.WebId ELSE ""

\* exact = [it for it in items if it.get("Name", "").lower() == tag.lower()]
Exact(tag, items) ==
    LET Test(it) == Lower(NameOf(it)) = Lower(tag)
    IN  SelectSeq(items, Test)

\* A resolver that takes the first candidate whatever its name.
SelectFirst(tag, items) == items[1]

\* (exact or items)[0]
Select(tag, items) ==
    IF Exact(tag, items) # <<>> THEN Exact(tag, items)[1] ELSE items[1]

\* A resolver that returns whatever WebId field it finds.
ResolveUnchecked(tag, data) ==
    IF ItemsOf(data) = <<>>
    THEN [kind |-> "PINotFound", webid |-> ""]
    ELSE [kind |-> "ok", webid |-> WebIdOf(Select(tag, ItemsOf(data)))]

\* The body of get_point_webid after a successful _get.
Resolve(tag, data) ==
    IF ItemsOf(data) = <<>>
    THEN [kind |-> "PINotFound", webid |-> ""]
    ELSE IF WebIdOf(Select(tag, ItemsOf(data))) = ""
         THEN [kind |-> "PINotFound", webid |-> ""]
         ELSE [kind |-> "ok", webid |-> WebIdOf(Select(tag, ItemsOf(data)))]

(***************************************************************************)
(* functools.lru_cache                                                     *)
(***************************************************************************)
\* A cache that folds the tag's case into its key.
KeyFolded(c, tag) == <<c, Lower(tag)>>

\* The cache key of a call: the instance and the tag string as given.
Key(c, tag) == <<c, tag>>

CacheKeys == { cache[i].key : i \in 1 .. Len(cache) }

CacheIndex(k) == CHOOSE i \in 1 .. Len(cache) : cache[i].key = k

\* A cache hit makes the entry the most recently used one.
Touch(s, i) ==
    Append([j \in 1 .. Len(s) - 1 |-> IF j < i THEN s[j] ELSE s[j + 1]], s[i])

\* A cache that makes room by dropping the newest entry.
InsertDropNewest(s, e) ==
    IF Len(s) >= LruMaxsize THEN Append(SubSeq(s, 1, Len(s) - 1), e) ELSE Append(s, e)

\* A cache miss stores the result, dropping the least recently used entry
\* of a full cache.
Insert(s, e) ==
    IF Len(s) >= LruMaxsize THEN Append(Tail(s), e) ELSE Append(s, e)

\* The max_points argument of recorded: not given (None), or an integer.
NotGiven == [given |-> FALSE, n |-> 0]
Given(n) == [given |-> TRUE, n |-> n]

\* No maxCount among the parameters of the request, or the cap.
NoCap == [present |-> FALSE, n |-> 0]
Cap(n) == [present |-> TRUE, n |-> n]

\* recorded: if max_points: params["maxCount"] = max_points
MaxCount(op, max_points) ==
    IF op = "recorded" /\ max_points.given /\ max_points.n # 0
    THEN Cap(max_points.n) ELSE NoCap

\* A stream request sent for the tag as given, without its identifier.
StreamRequestUnresolved(op, webid, max_points) ==
    [endpoint |-> Endpoint(op), webid |-> "", nameFilter |-> <<>>,
     maxCount |-> MaxCount(op, max_points)]

StreamRequest(op, webid, max_points) ==
    [endpoint |-> Endpoint(op), webid |-> webid, nameFilter |-> <<>>,
     maxCount |-> MaxCount(op, max_points)]

Returned(ret, webid, data) ==
    [kind |-> "ok", ret |-> ret, webid |-> webid,
     hasItems |-> data.hasItems, Items |-> data.Items]

Failed(kind) ==
    [kind |-> kind, ret |-> "none", webid |-> "", hasItems |-> FALSE, Items |-> <<>>]

ClientInit ==
    /\ cache = <<>>
    /\ pc = "idle"
    /\ call = NoCall
    /\ nLookup = 0
    /\ nStream = 0
    /\ req = NoRequest
    /\ lastReply = NoReply
    /\ got = NoOutcome
    /\ result = NoResult

(***************************************************************************)
(* A caller invokes op(tag) on instance c.  The method starts with         *)
(* get_point_webid(tag): a cache hit yields the identifier at once (and    *)
(* the method goes on to its stream request); a miss sends the point       *)
(* lookup.                                                                 *)
(***************************************************************************)
CallWith(op, c, tag, max_points) ==
    /\ pc = "idle"
    /\ UNCHANGED <<parseVars, resampleVars, queryVars>>
    /\ call' = [op |-> op, c |-> c, tag |-> tag, max_points |-> max_points]
    /\ lastReply' = NoReply
    /\ got' = NoOutcome
    /\ IF Key(c, tag) \in CacheKeys
       THEN LET i == CacheIndex(Key(c, tag))
                w == cache[i].webid
            IN  /\ cache' = Touch(cache, i)
                /\ nLookup' = 0
                /\ IF op = "get_point_webid"
                   THEN /\ pc' = "done"
                        /\ nStream' = 0
                        /\ req' = NoRequest
                        /\ result' = Returned("webid", w, NoOutcome)
                   ELSE /\ pc' = "stream"
                        /\ nStream' = 1
                        /\ req' = StreamRequest(op, w, max_points)
                        /\ result' = NoResult
       ELSE /\ cache' = cache
            /\ pc' = "lookup"
            /\ nLookup' = 1
            /\ nStream' = 0
            /\ req' = [endpoint |-> "points", webid |-> "", nameFilter |-> tag]
            /\ result' = NoResult

\* A resolver whose cache also stores a failed resolution, as an empty
\* identifier.
HandleLookupCachingFailure(reply, wraps) ==
    /\ pc = "lookup"
    /\ UNCHANGED <<parseVars, resampleVars, queryVars>>
    /\ lastReply' = reply
    /\ got' = Get(reply, wraps)
    /\ UNCHANGED <<call, nLookup>>
    /\ IF Get(reply, wraps).kind # "ok" \/ Resolve(call.tag, Get(reply, wraps)).kind # "ok"
       THEN /\ pc' = "done"
            /\ result' = Failed(IF Get(reply, wraps).kind # "ok" THEN Get(reply, wraps).kind
                                ELSE Resolve(call.tag, Get(reply, wraps)).kind)
            /\ cache' = Insert(cache, [key |-> Key(call.c, call.tag), webid |-> ""])
            /\ UNCHANGED <<nStream, req>>
       ELSE /\ cache' = Insert(cache, [key |-> Key(call.c, call.tag),
                                       webid |-> Resolve(call.tag, Get(reply, wraps)).webid])
            /\ IF call.op = "get_point_webid"
               THEN /\ pc' = "done"
                    /\ result' = Returned("webid", Resolve(call.tag, Get(reply, wraps)).webid,
                                          NoOutcome)
                    /\ UNCHANGED <<nStream, req>>
               ELSE /\ pc' = "stream"
                    /\ nStream' = nStream + 1
                    /\ req' = StreamRequest(call.op, Resolve(call.tag, Get(reply, wraps)).webid,
                                            call.max_points)
                    /\ result' = NoResult

(***************************************************************************)
(* The point lookup's reply arrives: _get returns or raises,               *)
(* get_point_webid selects the candidate, lru_cache stores a returned      *)
(* identifier (never an exception), and a DataLink-like method goes on to  *)
(* its stream request.                                                     *)
(***************************************************************************)
HandleLookup(reply, wraps) ==
    /\ pc = "lookup"
    /\ UNCHANGED <<parseVars, resampleVars, queryVars>>
    /\ lastReply' = reply
    /\ got' = Get(reply, wraps)
    /\ UNCHANGED <<call, nLookup>>
    /\ IF Get(reply, wraps).kind # "ok"
       THEN /\ pc' = "done"
            /\ result' = Failed(Get(reply, wraps).kind)
            /\ UNCHANGED <<cache, nStream, req>>
       ELSE LET r == Resolve(call.tag, Get(reply, wraps))
            IN  IF r.kind # "ok"
                THEN /\ pc' = "done"
                     /\ result' = Failed(r.kind)
                     /\ UNCHANGED <<cache, nStream, req>>
                ELSE /\ cache' = Insert(cache, [key |-> Key(call.c, call.tag),
                                                webid |-> r.webid])
                     /\ IF call.op = "get_point_webid"
                        THEN /\ pc' = "done"
                             /\ result' = Returned("webid", r.webid, NoOutcome)
                             /\ UNCHANGED <<nStream, req>>
                        ELSE /\ pc' = "stream"
                             /\ nStream' = nStream + 1
                             /\ req' = StreamRequest(call.op, r.webid, call.max_points)
                             /\ result' = NoResult

\* A client that sends a failed point lookup once more.
LookupResponseRetry(reply, wraps) ==
    IF pc = "lookup" /\ Get(reply, wraps).kind # "ok" /\ nLookup < 2
    THEN /\ lastReply' = reply
         /\ got' = Get(reply, wraps)
         /\ nLookup' = nLookup + 1
         /\ UNCHANGED <<cache, pc, call, nStream, req, result>>
         /\ UNCHANGED <<parseVars, resampleVars, queryVars>>
    ELSE HandleLookup(reply, wraps)

\* get_point_webid awaits its one _get call.
LookupResponse(reply, wraps) == HandleLookup(reply, wraps)

(***************************************************************************)
(* The stream request's reply arrives: arc_val and summary return the      *)
(* decoded object, recorded and interpolated its "Items" (or []).          *)
(***************************************************************************)
StreamResponse(reply, wraps) ==
    /\ pc = "stream"
    /\ UNCHANGED <<parseVars, resampleVars, queryVars>>
    /\ lastReply' = reply
    /\ got' = Get(reply, wraps)
    /\ pc' = "done"
    /\ result' =
         IF Get(reply, wraps).kind # "ok"
         THEN Failed(Get(reply, wraps).kind)
         ELSE IF call.op \in {"recorded", "interpolated"}
              THEN Returned("list", req.webid,
                            [hasItems |-> TRUE, Items |-> ItemsOf(Get(reply, wraps))])
              ELSE Returned("dict", req.webid, Get(reply, wraps))
    /\ UNCHANGED <<cache, call, nLookup, nStream, req>>

\* A call that leaves max_points at its default.
Call(op, c, tag) == CallWith(op, c, tag, NotGiven)

\* The normalizer's variables while only the client runs.
ParseIdle ==
    /\ text = [kind |-> "none"]
    /\ ppc = "off"
    /\ parsed = [raised |-> FALSE, cols |-> {}, rows |-> <<>>]
    /\ fetchArgs = [status |-> 0, datasets |-> <<>>, output_unit |-> ""]
    /\ fetched = [raised |-> "none", cols |-> {}, rows |-> <<>>, order |-> <<>>]

\* The caller takes the outcome; the client is ready for the next call.
Return ==
    /\ pc = "done"
    /\ pc' = "idle"
    /\ call' = NoCall
    /\ nLookup' = 0
    /\ nStream' = 0
    /\ req' = NoRequest
    /\ lastReply' = NoReply
    /\ got' = NoOutcome
    /\ result' = NoResult
    /\ UNCHANGED cache
    /\ UNCHANGED <<parseVars, resampleVars, queryVars>>

(***************************************************************************)
(* The client: every operation on every instance.  Candidate selection is  *)
(* the resolver specification's subject; here point lookups are answered   *)
(* with candidates of one name, with or without a WebId.  A stream's       *)
(* events are not looked at by the client and are left out of its replies. *)
(***************************************************************************)
ClientCandidates ==
    { it \in Candidates : it.Name = <<"F", "o">> /\ (it.hasWebId <=> it.WebId # "") }
LookupReplies == Replies(SeqsUpTo(ClientCandidates, MaxClientItems))
StreamReplies == Replies({<<>>})

Next ==
    \/ pc = "idle" /\ \E op \in Ops, c \in Clients, tag \in Tags : Call(op, c, tag)
    \/ pc = "lookup" /\ \E reply \in LookupReplies, wraps \in BOOLEAN :
                            LookupResponse(reply, wraps)
    \/ pc = "stream" /\ \E reply \in StreamReplies, wraps \in BOOLEAN :
                            StreamResponse(reply, wraps)
    \/ Return

Init == ClientInit /\ ParseIdle /\ ResampleIdle /\ QueryIdle

Spec == Init /\ [][Next]_vars

(***************************************************************************)
(* The resolver alone: get_point_webid called directly on one instance,    *)
(* the provider answering with candidate lists of up to MaxItems entries.  *)
(***************************************************************************)
ResolverReplies == Replies(SeqsUpTo(Candidates, MaxItems))

NextResolve ==
    \/ pc = "idle" /\ \E tag \in Tags : Call("get_point_webid", 1, tag)
    \/ pc = "lookup" /\ \E reply \in ResolverReplies, wraps \in BOOLEAN :
                            LookupResponse(reply, wraps)
    \/ Return

SpecResolve == Init /\ [][NextResolve]_vars

(***************************************************************************)
(* recorded alone, on one instance, called with and without max_points.    *)
(***************************************************************************)
MaxPointsValues == {NotGiven, Given(0), Given(1), Given(2), Given(-1)}

NextRecorded ==
    \/ pc = "idle" /\ \E tag \in Tags, max_points \in MaxPointsValues :
                          CallWith("recorded", 1, tag, max_points)
    \/ pc = "lookup" /\ \E reply \in LookupReplies, wraps \in BOOLEAN :
                            LookupResponse(reply, wraps)
    \/ pc = "stream" /\ \E reply \in StreamReplies, wraps \in BOOLEAN :
                            StreamResponse(reply, wraps)
    \/ Return

SpecRecorded == Init /\ [][NextRecorded]_vars

(***************************************************************************)
(* The response normalizer (Graphs.py).                                    *)
(*                                                                         *)
(* A cell of a DataFrame or a scalar of a JSON document: a string, a       *)
(* number, a parsed datetime, or one of the missing values None, NaN, NaT. *)
(***************************************************************************)
Cell(t, s, n) == [t |-> t, s |-> s, n |-> n]
Str(s) == Cell("str", s, 0)
Num(n) == Cell("num", "", n)
Time(n) == Cell("time", "", n)
NoneCell == Cell("none", "", 0)
NaN == Cell("nan", "", 0)
NaT == Cell("nat", "", 0)
NA == Cell("na", "", 0)

\* Python truthiness of a scalar.
Truthy(c) == (c.t = "str" /\ c.s # "") \/ (c.t = "num" /\ c.n # 0) \/ c.t = "time"

\* a or b
Or(a, b) == IF Truthy(a) THEN a ELSE b

\* dict.get(k): a JSON object is a record of its keys.
DictGet(d, k) == IF k \in DOMAIN d THEN d[k] ELSE NoneCell

(***************************************************************************)
(* A DataFrame: its column labels and its rows, each row a record of the   *)
(* columns.                                                                *)
(***************************************************************************)
EmptyFrame == [cols |-> {}, rows |-> <<>>]

\* DataFrame.empty
IsEmpty(f) == f.cols = {} \/ f.rows = <<>>

(***************************************************************************)
(* pd.DataFrame(list of dicts): the columns are the union of the keys,     *)
(* a key an item lacks is NaN in its row.  A nested "Items" list is a cell *)
(* no later step reads; its column is left out.                            *)
(***************************************************************************)
DataFrame(items) ==
    LET cols == UNION { DOMAIN items[i] : i \in 1 .. Len(items) } \ {"Items"}
    IN  [cols |-> cols,
         rows |-> [i \in 1 .. Len(items) |->
                     [c \in cols |-> IF c \in DOMAIN items[i] THEN items[i][c] ELSE NaN]]]

\* f[c] = v
WithColumn(f, c, v) ==
    [cols |-> f.cols \cup {c},
     rows |-> [i \in 1 .. Len(f.rows) |->
                 [k \in f.cols \cup {c} |-> IF k = c THEN v ELSE f.rows[i][k]]]]

\* f[cs]
Project(f, cs) ==
    [cols |-> cs,
     rows |-> [i \in 1 .. Len(f.rows) |-> [k \in cs |-> f.rows[i][k]]]]

\* pd.concat([f, g], ignore_index=True)
Concat(f, g) ==
    LET cols == f.cols \cup g.cols
        Widen(h) == [i \in 1 .. Len(h.rows) |->
                       [k \in cols |-> IF k \in h.cols THEN h.rows[i][k] ELSE NaN]]
    IN  [cols |-> cols, rows |-> Widen(f) \o Widen(g)]

\* str.lower() of the column labels the payloads use.
LowerKey(k) ==
    CASE k = "Timestamp" -> "timestamp"
      [] k = "Time" -> "time"
      [] k = "Value" -> "value"
      [] k = "Values" -> "values"
      [] k = "Name" -> "name"
      [] k = "Tag" -> "tag"
      [] k = "Unit" -> "unit"
      [] k = "UnitsAbbreviation" -> "unitsabbreviation"
      [] k = "SummaryType" -> "summarytype"
      [] k = "Label" -> "label"
      [] k = "Path" -> "path"
      [] k = "WebId" -> "webid"
      [] k = "Message" -> "message"
      [] OTHER -> k

\* The canonical column of a label, or the label itself.
Canonical(k) ==
    LET lc == LowerKey(k)
    IN  IF lc \in {"timestamp", "time", "datetime", "localtimestamp", "utcseconds"}
        THEN "timestamp"
        ELSE IF lc \in {"value", "val", "doublevalue", "numericvalue"} THEN "value"
        ELSE IF lc \in {"name", "tag", "point", "path", "label"} THEN "tag"
        ELSE IF lc \in {"units", "unit", "unitsabbreviation"} THEN "unit"
        ELSE IF lc \in {"summarytype", "stat", "type"} THEN "stat"
        ELSE k

\* _rename_common_keys
RenameCommonKeys(f) ==
    LET cols == { Canonical(k) : k \in f.cols }
    IN  [cols |-> cols,
         rows |-> [i \in 1 .. Len(f.rows) |->
                     [c \in cols |-> f.rows[i][CHOOSE k \in f.cols : Canonical(k) = c]]]]

TidyColumns == {"timestamp", "value", "tag", "stat", "unit"}

\* What a parsing step hands back: a frame, or an exception.
Frame(f) == [raised |-> FALSE, cols |-> f.cols, rows |-> f.rows]
Raises == [raised |-> TRUE, cols |-> {}, rows |-> <<>>]

(***************************************************************************)
(* Variant 1: Items -> list of series, each with its own Items.            *)
(***************************************************************************)
\* series.get("Name") or series.get("Label") or series.get("Path") or series.get("WebId")
SeriesTag(series) ==
    Or(Or(Or(DictGet(series, "Name"), DictGet(series, "Label")), DictGet(series, "Path")),
       DictGet(series, "WebId"))

SeriesUnit(series) == Or(DictGet(series, "UnitsAbbreviation"), DictGet(series, "Unit"))

SeriesStat(series) == Or(DictGet(series, "Stat"), DictGet(series, "SummaryType"))

\* series.get("Items") or []
SeriesItems(series) == IF "Items" \in DOMAIN series THEN series.Items ELSE <<>>

\* pd.DataFrame(items) and _rename_common_keys(f), for a non-empty list
ItemsFrame(items) ==
    IF items = <<>> THEN EmptyFrame ELSE RenameCommonKeys(DataFrame(items))

\* if v is not None and c not in f: f[c] = v
AddIfAbsent(f, c, v) ==
    IF v.t # "none" /\ c \notin f.cols THEN WithColumn(f, c, v) ELSE f

\* f[['timestamp', 'value'] + [c for c in ['tag','stat','unit'] if c in f.columns]]
TidyProject(f) == Project(f, f.cols \cap TidyColumns)

\* The frame a series appends to frames, or the empty frame when it appends
\* none; the series' tag is written over the tag of the inner items.
StampSeries(f, tag, unit, stat) ==
    IF ~({"timestamp", "value"} \subseteq f.cols)
    THEN EmptyFrame
    ELSE TidyProject(AddIfAbsent(AddIfAbsent(WithColumn(f, "tag", tag), "unit", unit),
                                 "stat", stat))

SeriesFrame(series) ==
    StampSeries(ItemsFrame(SeriesItems(series)), SeriesTag(series), SeriesUnit(series),
                SeriesStat(series))

ConcatNonEmpty(f, rest) ==
    IF f.rows = <<>> THEN rest
    ELSE IF rest.rows = <<>> THEN f
    ELSE Concat(f, rest)

\* frames = [...]; pd.concat(frames, ignore_index=True)
RECURSIVE ConcatSeries(_)
ConcatSeries(seriesList) ==
    IF seriesList = <<>>
    THEN EmptyFrame
    ELSE ConcatNonEmpty(SeriesFrame(Head(seriesList)), ConcatSeries(Tail(seriesList)))

\* obj["Items"] and isinstance(obj["Items"][0], dict) and "Items" in obj["Items"][0]
IsNested(items) == items # <<>> /\ "Items" \in DOMAIN items[1]

NestedVariant(obj) ==
    IF "Items" \in DOMAIN obj /\ IsNested(obj.Items)
    THEN ConcatSeries(obj.Items) ELSE EmptyFrame

\* Variant 2: flat Items with Timestamp/Value
FlatKeep(f) ==
    IF {"timestamp", "value"} \subseteq f.cols THEN TidyProject(f) ELSE EmptyFrame

FlatFrame(items) == FlatKeep(RenameCommonKeys(DataFrame(items)))

FlatVariant(obj) ==
    IF "Items" \in DOMAIN obj /\ obj.Items # <<>>
    THEN FlatFrame(obj.Items) ELSE EmptyFrame

\* pd.DataFrame({'timestamp': obj['Timestamps'], 'value': obj['Values']})
ZipFrame(ts, vs) ==
    [cols |-> {"timestamp", "value"},
     rows |-> [i \in 1 .. Len(ts) |-> [timestamp |-> ts[i], value |-> vs[i]]]]

\* obj.get('Name') or obj.get('Label') or obj.get('Path')
PairedTag(obj) == Or(Or(DictGet(obj, "Name"), DictGet(obj, "Label")), DictGet(obj, "Path"))

\* if obj.get('UnitsAbbreviation'): f['unit'] = obj['UnitsAbbreviation']
PairedUnit(f, unit) == IF Truthy(unit) THEN WithColumn(f, "unit", unit) ELSE f

\* A pairing that takes the tag from "Name" alone.
PairedFrameNameOnly(obj) ==
    IF Len(obj.Timestamps) # Len(obj.Values)
    THEN Raises
    ELSE Frame(PairedUnit(WithColumn(ZipFrame(obj.Timestamps, obj.Values), "tag",
                                     DictGet(obj, "Name")),
                          DictGet(obj, "UnitsAbbreviation")))

\* Variant 3: paired arrays; arrays of different lengths make pd.DataFrame raise.
PairedFrame(obj) ==
    IF Len(obj.Timestamps) # Len(obj.Values)
    THEN Raises
    ELSE Frame(PairedUnit(WithColumn(ZipFrame(obj.Timestamps, obj.Values), "tag",
                                     PairedTag(obj)),
                          DictGet(obj, "UnitsAbbreviation")))

\* The variants with the flat list tried before the nested one.
FirstVariantFlatFirst(nested, flat, obj) ==
    IF flat.rows # <<>> THEN Frame(flat)
    ELSE IF nested.rows # <<>> THEN Frame(nested)
    ELSE IF {"Timestamps", "Values"} \subseteq DOMAIN obj THEN PairedFrame(obj)
    ELSE Frame(EmptyFrame)

\* The first variant with a result.
FirstVariant(nested, flat, obj) ==
    IF nested.rows # <<>> THEN Frame(nested)
    ELSE IF flat.rows # <<>> THEN Frame(flat)
    ELSE IF {"Timestamps", "Values"} \subseteq DOMAIN obj THEN PairedFrame(obj)
    ELSE Frame(EmptyFrame)

(***************************************************************************)
(* _parse_json_variants(obj).  doc is the decoded JSON: [top |-> "dict",   *)
(* obj |-> the object], or a JSON array or number at the top level.        *)
(***************************************************************************)
ParseJsonVariants(doc) ==
    IF doc.top = "number" THEN Raises
    ELSE IF doc.top = "list" THEN Frame(EmptyFrame)
    ELSE FirstVariant(NestedVariant(doc.obj), FlatVariant(doc.obj), doc.obj)

(***************************************************************************)
(* pd.read_csv(io.StringIO(text)).  A CSV text is its header and its data  *)
(* rows; an empty text makes read_csv raise; JSON text and prose read as   *)
(* a header line of no known column and no data row.                       *)
(***************************************************************************)
ReadCsv(payload) ==
    IF payload.kind = "csv" THEN Frame([cols |-> payload.header, rows |-> payload.rows])
    ELSE IF payload.kind = "empty" THEN Raises
    ELSE Frame([cols |-> {"?"}, rows |-> <<>>])

\* The timestamps the payloads use, and pd.to_datetime(..., errors='coerce').
Day1 == "2025-06-01"
Day2 == "2025-06-02"
NotADate == "n/a"

ToDatetime(c) ==
    IF c.t = "time" THEN c
    ELSE IF c.t = "num" THEN Time(c.n)
    ELSE IF c.t = "str" /\ c.s = Day1 THEN Time(1)
    ELSE IF c.t = "str" /\ c.s = Day2 THEN Time(2)
    ELSE NaT

\* pd.to_numeric(..., errors='coerce')
ToNumeric(c) ==
    IF c.t = "num" THEN c
    ELSE IF c.t = "str" /\ c.s = "1" THEN Num(1)
    ELSE IF c.t = "str" /\ c.s = "2" THEN Num(2)
    ELSE NaN

\* Series.astype(str)
AsStr(c) ==
    IF c.t = "str" THEN c
    ELSE IF c.t = "num" THEN Str(IF c.n = 1 THEN "1" ELSE IF c.n = 2 THEN "2" ELSE "0")
    ELSE Str("nan")

\* df['timestamp'] = pd.to_datetime(df['timestamp'], errors='coerce')
CoerceTimestamp(f) ==
    [cols |-> f.cols,
     rows |-> [i \in 1 .. Len(f.rows) |->
                 [k \in f.cols |-> IF k = "timestamp" THEN ToDatetime(f.rows[i][k])
                                   ELSE f.rows[i][k]]]]

\* A row whose timestamp is not missing.
HasTimestamp(r) == r.timestamp.t \notin {"nat", "nan", "na", "none"}

\* DataFrame.dropna(subset=['timestamp'])
DropNaTimestamp(f) == [cols |-> f.cols, rows |-> SelectSeq(f.rows, HasTimestamp)]

\* cols.get(a) or cols.get(b) or ..., with cols = {c.lower(): c}: the column
\* whose lowered label is the first of the wanted ones present, or "" (None).
FirstColumn(header, wanted) ==
    LET Has(w) == \E c \in header : LowerKey(c) = w
    IN  IF SelectSeq(wanted, Has) = <<>> THEN ""
        ELSE CHOOSE c \in header : LowerKey(c) = SelectSeq(wanted, Has)[1]

\* The columns of out.
CsvCols(tag, unit) ==
    {"timestamp", "value"} \cup (IF tag # "" THEN {"tag"} ELSE {})
        \cup (IF unit # "" THEN {"unit"} ELSE {})

\* out['timestamp'], out['value'], out['tag'], out['unit']
CsvOut(df, cols, ts, val, tag, unit) ==
    [cols |-> cols,
     rows |-> [i \in 1 .. Len(df.rows) |->
                 [k \in cols |->
                    CASE k = "timestamp" -> ToDatetime(df.rows[i][ts])
                      [] k = "value" -> ToNumeric(df.rows[i][val])
                      [] k = "tag" -> AsStr(df.rows[i][tag])
                      [] OTHER -> AsStr(df.rows[i][unit])]]]

\* if ts_col and val_col: ...; return out
CsvInfer(df, ts, val, tag, unit) ==
    IF ts # "" /\ val # ""
    THEN DropNaTimestamp(CsvOut(df, CsvCols(tag, unit), ts, val, tag, unit))
    ELSE EmptyFrame

\* The CSV fallback of _parse_pi_response_to_df, after read_csv.
CsvFrame(df) ==
    CsvInfer(df,
             FirstColumn(df.cols, <<"timestamp", "time", "datetime">>),
             FirstColumn(df.cols, <<"value", "values">>),
             FirstColumn(df.cols, <<"tag", "name", "point">>),
             FirstColumn(df.cols, <<"unit", "units", "unitsabbreviation">>))

\* json.loads(text) followed by _parse_json_variants
JsonStep(payload) ==
    IF payload.kind = "json" THEN ParseJsonVariants(payload.doc) ELSE Raises

CsvOf(df) == IF df.raised THEN Raises ELSE Frame(CsvFrame(df))

CsvStep(payload) == CsvOf(ReadCsv(payload))

\* A handler that lets the exception through.
Reraise(r) == r

\* try: ... except Exception: pass
Swallow(r) == IF r.raised THEN Frame(EmptyFrame) ELSE r

\* The JSON result when it has rows, else the result of the CSV fallback.
JsonElseCsv(j, c) ==
    IF j.raised THEN j
    ELSE IF ~IsEmpty(j) THEN j
    ELSE c

(***************************************************************************)
(* _parse_pi_response_to_df(text): JSON first, the CSV fallback when that  *)
(* raised or gave an empty frame, and the empty frame when nothing matched.*)
(***************************************************************************)
ParsePiResponseToDf(payload) ==
    JsonElseCsv(Swallow(JsonStep(payload)), Swallow(CsvStep(payload)))

(***************************************************************************)
(* fetch_to_dataframe, after execute_query has handed back (status, text). *)
(***************************************************************************)
\* A fetch that stamps the requested kind over a stat the rows already carry.
StampStatOverwrite(f, datasets) ==
    IF datasets = <<>> THEN f
    ELSE IF Len(datasets) = 1 THEN WithColumn(f, "stat", Str(datasets[1]))
    ELSE WithColumn(f, "stat", NA)

\* if 'stat' not in df.columns: one requested dataset names the stat, several
\* leave it blank.
StampStat(f, datasets) ==
    IF "stat" \in f.cols \/ datasets = <<>> THEN f
    ELSE IF Len(datasets) = 1 THEN WithColumn(f, "stat", Str(datasets[1]))
    ELSE WithColumn(f, "stat", NA)

Perms(n) == { p \in [1 .. n -> 1 .. n] : \A i, j \in 1 .. n : p[i] = p[j] => i = j }

\* The rows in the order p are sorted by timestamp.
SortedBy(rows, p) ==
    \A i, j \in 1 .. Len(rows) : i < j => rows[p[i]].timestamp.n <= rows[p[j]].timestamp.n

\* DataFrame.sort_values('timestamp'): the default sort is not stable, rows
\* of equal timestamp come out in any order.
SortValues(f) ==
    { [cols |-> f.cols, rows |-> [i \in 1 .. Len(f.rows) |-> f.rows[p[i]]]] :
        p \in { q \in Perms(Len(f.rows)) : SortedBy(f.rows, q) } }

\* A fetch that parses the timestamps and neither drops nor sorts rows.
CoerceOnly(f) == IF "timestamp" \in f.cols THEN {CoerceTimestamp(f)} ELSE {f}

\* if 'timestamp' in df.columns: to_datetime, dropna, sort_values
CoerceAndSort(f) ==
    IF "timestamp" \in f.cols
    THEN SortValues(DropNaTimestamp(CoerceTimestamp(f)))
    ELSE {f}

\* A fetch that never falls back to the requested unit.
NoUnitFallback(f, output_unit) == f

\* if 'unit' not in df.columns and params.output_unit: df['unit'] = output_unit
UnitFallback(f, output_unit) ==
    IF "unit" \notin f.cols /\ output_unit # ""
    THEN WithColumn(f, "unit", Str(output_unit)) ELSE f

\* ordered_cols + rest; every parsing strategy keeps tidy columns only.
ColumnOrder(cols) ==
    LET In(c) == c \in cols
    IN  SelectSeq(<<"timestamp", "tag", "stat", "value", "unit">>, In)

FetchRaises(kind) == [raised |-> kind, cols |-> {}, rows |-> <<>>, order |-> <<>>]

FetchReturns(f) ==
    [raised |-> "none", cols |-> f.cols, rows |-> f.rows, order |-> ColumnOrder(f.cols)]

\* fetch_to_dataframe once the text is parsed into df.
Deliver(status, df, datasets, output_unit) ==
    IF status # 200 THEN {FetchRaises("ValueError")}
    ELSE IF df.raised THEN {FetchRaises("Exception")}
    ELSE IF IsEmpty(df) THEN {FetchRaises("ValueError")}
    ELSE { FetchReturns(UnitFallback(g, output_unit)) :
             g \in CoerceAndSort(StampStat([cols |-> df.cols, rows |-> df.rows], datasets)) }

\* The outcomes of fetch_to_dataframe.
FetchToDataframe(status, body, datasets, output_unit) ==
    Deliver(status, ParsePiResponseToDf(body), datasets, output_unit)

(***************************************************************************)
(* The payloads the normalizer is run on.                                  *)
(***************************************************************************)
EmptyDict == [k \in {} |-> NoneCell]

JsonDict(obj) == [kind |-> "json", doc |-> [top |-> "dict", obj |-> obj]]

\* Inner items of a nested series: a full sample, one without a value, one
\* without a timestamp.
InnerItems ==
    { [Timestamp |-> Str(Day2), Value |-> Num(1)],
      [Timestamp |-> Str(Day1)],
      [Value |-> Num(2)] }

\* The naming fields of the outer series, by position.
SeriesHead(i) ==
    CASE i = 1 -> [Name |-> Str("A")]
      [] i = 2 -> [Name |-> Str(""), Label |-> Str("B"), UnitsAbbreviation |-> Str("Amp")]
      [] OTHER -> [WebId |-> Str("W"), SummaryType |-> Str("Average")]

\* An outer series has no "Items" key, or a list of inner items.
SeriesBodies ==
    {EmptyDict} \cup { [Items |-> l] : l \in SeqsUpTo(InnerItems, MaxInner) }

InnerCount(series) == IF "Items" \in DOMAIN series THEN Len(series.Items) ELSE 0

RECURSIVE TotalInner(_)
TotalInner(seriesList) ==
    IF seriesList = <<>> THEN 0
    ELSE InnerCount(Head(seriesList)) + TotalInner(Tail(seriesList))

NestedTexts ==
    { JsonDict([Items |-> [i \in 1 .. Len(bodies) |-> SeriesHead(i) @@ bodies[i]]]) :
        bodies \in { b \in SeqsUpTo(SeriesBodies, MaxSeries) :
                       b # <<>> /\ TotalInner(b) <= MaxRows
                       /\ \E i \in 1 .. Len(b) : "Items" \in DOMAIN b[i] } }

FlatItems ==
    { [Timestamp |-> Str(Day2), Value |-> Num(1)],
      [Timestamp |-> Str(Day1), Value |-> Num(2)],
      [Timestamp |-> Str(NotADate), Value |-> Num(1)],
      [Timestamp |-> Str(Day1)],
      [Value |-> Num(2)],
      [Time |-> Str(Day1), Value |-> Num(1), Name |-> Str("A"),
       UnitsAbbreviation |-> Str("Amp")] }

\* No two labels of the items fall on the same canonical column.
WellKeyed(items) ==
    LET keys == UNION { DOMAIN items[i] : i \in 1 .. Len(items) }
    IN  \A k1, k2 \in keys : Canonical(k1) = Canonical(k2) => k1 = k2

FlatTexts ==
    { JsonDict([Items |-> l]) : l \in { m \in SeqsUpTo(FlatItems, MaxInner) : WellKeyed(m) } }

PairedHeads ==
    { EmptyDict,
      [Name |-> Str("A")],
      [Name |-> Str(""), Label |-> Str("L")],
      [Path |-> Str("P"), UnitsAbbreviation |-> Str("Amp")] }

PairedTexts ==
    { JsonDict(head @@ items @@ [Timestamps |-> ts, Values |-> [i \in 1 .. n |-> Num(i)]]) :
        head \in PairedHeads, items \in {EmptyDict, [Items |-> <<>>]},
        ts \in SeqsUpTo({Str(Day1), Str(Day2)}, MaxInner), n \in 0 .. MaxInner }

CsvHeaders ==
    { {"timestamp", "value"},
      {"Time", "Value", "Name"},
      {"timestamp", "value", "tag", "unit"},
      {"timestamp"},
      {"x", "y"} }

\* The cell of a column in each kind of data row.
CsvCell(col, kind) ==
    CASE col \in {"timestamp", "Time"} ->
            Str(IF kind = 1 THEN Day2 ELSE IF kind = 2 THEN Day1 ELSE NotADate)
      [] col \in {"value", "Value"} ->
            (IF kind = 1 THEN Num(1) ELSE IF kind = 2 THEN Str("x") ELSE Num(2))
      [] col \in {"tag", "Name"} -> (IF kind = 3 THEN NaN ELSE Str("A"))
      [] col = "unit" -> Str("Amp")
      [] OTHER -> Str("z")

CsvTexts ==
    { [kind |-> "csv", header |-> h,
       rows |-> [i \in 1 .. Len(ks) |-> [c \in h |-> CsvCell(c, ks[i])]]] :
        h \in CsvHeaders, ks \in SeqsUpTo(1 .. 3, MaxInner) }

OtherTexts ==
    { [kind |-> "json", doc |-> [top |-> "list"]],
      [kind |-> "json", doc |-> [top |-> "number"]],
      JsonDict([Message |-> Str("error")]),
      [kind |-> "empty"],
      [kind |-> "prose"] }

\* Responses of more than one shape at once: an outer series that has inner
\* items and a sample of its own, with or without paired arrays beside the
\* list, and a flat list beside paired arrays.
OwnSample == [Timestamp |-> Str(Day1), Value |-> Num(2)]

PairedArrays == [Timestamps |-> <<Str(Day1)>>, Values |-> <<Num(3)>>]

MixedTexts ==
    { JsonDict([Items |-> <<[Name |-> Str("A"), Items |-> inner] @@ OwnSample>>] @@ arrays) :
        inner \in { <<[Timestamp |-> Str(Day2), Value |-> Num(1)]>>, <<[Value |-> Num(2)]>> },
        arrays \in {EmptyDict, PairedArrays} }
    \cup { JsonDict([Items |-> <<[Timestamp |-> Str(Day2), Value |-> Num(1)]>>,
                     Name |-> Str("A")] @@ PairedArrays) }

\* One outer series whose inner items are plain samples and samples that
\* carry a name, a unit and an aggregation kind of their own.
OwnFieldItems ==
    { [Timestamp |-> Str(Day2), Value |-> Num(1)],
      [Timestamp |-> Str(Day1), Value |-> Num(2), Name |-> Str("own"),
       UnitsAbbreviation |-> Str("V"), SummaryType |-> Str("Maximum")] }

OwnFieldTexts ==
    { JsonDict([Items |-> <<SeriesHead(i) @@ [Items |-> l]>>]) :
        i \in 1 .. 3,
        l \in { m \in SeqsUpTo(OwnFieldItems, MaxInner) :
                  \E j \in 1 .. Len(m) : "Name" \in DOMAIN m[j] } }

ParseInputs ==
    NestedTexts \cup FlatTexts \cup PairedTexts \cup MixedTexts \cup OwnFieldTexts
        \cup CsvTexts \cup OtherTexts

FetchDatasets == { <<>>, <<"Average">>, <<"Minimum", "Maximum">> }
FetchUnits == {"Amp", ""}

(***************************************************************************)
(* The normalizer and the fetch, each run on a payload.                    *)
(***************************************************************************)
ParseInit ==
    /\ text \in ParseInputs
    /\ ppc = "start"
    /\ parsed = [raised |-> FALSE, cols |-> {}, rows |-> <<>>]
    /\ fetchArgs = [status |-> 0, datasets |-> <<>>, output_unit |-> ""]
    /\ fetched = FetchRaises("none")

Normalize ==
    /\ ppc = "start"
    /\ parsed' = ParsePiResponseToDf(text)
    /\ ppc' = "parsed"
    /\ UNCHANGED <<text, fetchArgs, fetched>>
    /\ UNCHANGED <<clientVars, resampleVars, queryVars>>

Fetch(status, datasets, output_unit) ==
    /\ ppc = "start"
    /\ fetched' \in FetchToDataframe(status, text, datasets, output_unit)
    /\ fetchArgs' = [status |-> status, datasets |-> datasets, output_unit |-> output_unit]
    /\ ppc' = "fetched"
    /\ UNCHANGED <<text, parsed>>
    /\ UNCHANGED <<clientVars, resampleVars, queryVars>>

NextParse ==
    \/ Normalize
    \/ ppc = "start" /\ \E status \in {200, 500}, datasets \in FetchDatasets,
                           output_unit \in FetchUnits :
                            Fetch(status, datasets, output_unit)

InitParse == ClientInit /\ ParseInit /\ ResampleIdle /\ QueryIdle

SpecParse == InitParse /\ [][NextParse]_vars

(***************************************************************************)
(* resample_timeseries(df, interval, how).  Timestamps are whole time      *)
(* units counted from the origin of the bins, interval is the width of a   *)
(* window in those units.                                                  *)
(***************************************************************************)
\* A missing cell: None, NaN, NaT or pd.NA.
Missing(c) == c.t \in {"none", "nan", "nat", "na"}

\* gkeys = [k for k in group_keys if k in df.columns]
GroupKeys(f) == {"tag", "stat"} \cap f.cols

KeyOf(r, gkeys) == [k \in gkeys |-> r[k]]

\* The keys df.groupby(gkeys) iterates over: rows with a missing key are in
\* no group.
Groups(f, gkeys) ==
    { KeyOf(f.rows[i], gkeys) :
        i \in { j \in 1 .. Len(f.rows) : \A k \in gkeys : ~Missing(f.rows[j][k]) } }

\* sub: the rows of one group.
Members(rows, key, gkeys) ==
    LET InGroup(r) == KeyOf(r, gkeys) = key
    IN  SelectSeq(rows, InGroup)

\* The window a timestamp falls in.
Bin(t, interval) == t \div interval

\* The rows of a window.
InBin(rows, b, interval) ==
    LET Test(r) == Bin(r.timestamp.n, interval) = b
    IN  SelectSeq(rows, Test)

\* The numbers of the value column; sum, min, max and mean skip NaN.
Numbers(rows) ==
    LET IsNumber(r) == r.value.t = "num"
    IN  SelectSeq(rows, IsNumber)

RECURSIVE SumOf(_)
SumOf(rows) == IF rows = <<>> THEN 0 ELSE Head(rows).value.n + SumOf(Tail(rows))

MinOf(rows) ==
    CHOOSE m \in { rows[i].value.n : i \in 1 .. Len(rows) } :
        \A i \in 1 .. Len(rows) : m <= rows[i].value.n

MaxOf(rows) ==
    CHOOSE m \in { rows[i].value.n : i \in 1 .. Len(rows) } :
        \A i \in 1 .. Len(rows) : m >= rows[i].value.n

\* .resample(interval).sum() / .min() / .max() / .mean() on one window given
\* its numbers: an empty window sums to 0 and has NaN as min, max and mean.
Aggregate(how, numbers) ==
    IF how = "sum" THEN Num(SumOf(numbers))
    ELSE IF numbers = <<>> THEN NaN
    ELSE IF how = "min" THEN Num(MinOf(numbers))
    ELSE IF how = "max" THEN Num(MaxOf(numbers))
    ELSE Num(SumOf(numbers) \div Len(numbers))

\* The first and the last window of the rows: resample emits every window
\* from the one to the other.
FirstBin(rows, interval) ==
    CHOOSE b \in { Bin(rows[i].timestamp.n, interval) : i \in 1 .. Len(rows) } :
        \A i \in 1 .. Len(rows) : b <= Bin(rows[i].timestamp.n, interval)

LastBin(rows, interval) ==
    CHOOSE b \in { Bin(rows[i].timestamp.n, interval) : i \in 1 .. Len(rows) } :
        \A i \in 1 .. Len(rows) : b >= Bin(rows[i].timestamp.n, interval)

\* sub['value'].resample(interval).agg().reset_index(), and the group's keys
\* restored on every row.
ResampleGroup(rows, first, last, interval, how, key) ==
    [i \in 1 .. (last - first + 1) |->
        [timestamp |-> Time((first + i - 1) * interval),
         value |-> Aggregate(how, Numbers(InBin(rows, first + i - 1, interval)))] @@ key]

ResampleRows(rows, interval, how, key) ==
    ResampleGroup(rows, FirstBin(rows, interval), LastBin(rows, interval), interval, how, key)

\* out: the resampled groups one after the other.
RECURSIVE ConcatGroups(_, _, _, _, _)
ConcatGroups(rows, keys, gkeys, interval, how) ==
    IF keys = {} THEN <<>>
    ELSE LET key == CHOOSE k \in keys : TRUE
         IN  ResampleRows(Members(rows, key, gkeys), interval, how, key)
                \o ConcatGroups(rows, keys \ {key}, gkeys, interval, how)

ResampleRaises(kind) == [raised |-> kind, cols |-> {}, rows |-> <<>>]

ResampleReturns(f) == [raised |-> "none", cols |-> f.cols, rows |-> f.rows]

\* The grouped branch: pd.concat(out) raises on an empty list; the result is
\* sorted by timestamp.
Grouped(f, gkeys, interval, how) ==
    IF Groups(f, gkeys) = {}
    THEN {ResampleRaises("ValueError")}
    ELSE { ResampleReturns(g) :
             g \in SortValues([cols |-> {"timestamp", "value"} \cup gkeys,
                               rows |-> ConcatGroups(f.rows, Groups(f, gkeys), gkeys,
                                                     interval, how)]) }

\* The ungrouped branch.
Ungrouped(f, interval, how) ==
    {ResampleReturns([cols |-> {"timestamp", "value"},
                      rows |-> ResampleRows(f.rows, interval, how, EmptyDict)])}

\* A resampling that rejects unusable input.
ResampleTimeseriesStrict(f, interval, how) ==
    IF "timestamp" \notin f.cols \/ "value" \notin f.cols THEN {ResampleRaises("ValueError")}
    ELSE IF IsEmpty(f) THEN {ResampleRaises("ValueError")}
    ELSE IF GroupKeys(f) # {} THEN Grouped(f, GroupKeys(f), interval, how)
    ELSE Ungrouped(f, interval, how)

\* The outcomes of resample_timeseries.
ResampleTimeseries(f, interval, how) ==
    IF "timestamp" \notin f.cols \/ "value" \notin f.cols THEN {ResampleReturns(f)}
    ELSE IF IsEmpty(f) THEN {ResampleReturns(f)}
    ELSE IF GroupKeys(f) # {} THEN Grouped(f, GroupKeys(f), interval, how)
    ELSE Ungrouped(f, interval, how)

(***************************************************************************)
(* The frames resample_timeseries is run on.  The values are multiples of  *)
(* 60, the mean of up to six of them is a whole number.                    *)
(***************************************************************************)
Samples ==
    { [timestamp |-> Time(t), value |-> Num(60), tag |-> Str(g), unit |-> Str("Amp"),
       stat |-> Str("Average")] : t \in {0, 1, 3}, g \in {"A", "B"} }
    \cup { [timestamp |-> Time(1), value |-> NaN, tag |-> Str("A"), unit |-> Str("Amp"),
            stat |-> Str("Average")],
           [timestamp |-> Time(0), value |-> Num(120), tag |-> NoneCell, unit |-> Str("Amp"),
            stat |-> Str("Average")],
           [timestamp |-> Time(0), value |-> Num(60), tag |-> Str("A"), unit |-> Str("Amp"),
            stat |-> NA] }

ResampleColumns ==
    { {"timestamp", "value", "tag", "unit"},
      {"timestamp", "value", "tag", "stat"},
      {"timestamp", "value", "stat", "unit"},
      {"timestamp", "value"},
      {"timestamp", "tag"},
      {"value", "tag"},
      {"tag", "unit"} }

ResampleInputs ==
    { Project([cols |-> {"timestamp", "value", "tag", "stat", "unit"}, rows |-> rows], cols) :
        rows \in SeqsUpTo(Samples, MaxSamples), cols \in ResampleColumns }

ResampleIntervals == {1, 2}
Aggregators == {"mean", "sum", "min", "max"}

ResampleInit ==
    /\ rpc = "start"
    /\ frame \in ResampleInputs
    /\ rule = [interval |-> 0, how |-> ""]
    /\ resampled = ResampleRaises("none")

Resample(interval, how) ==
    /\ rpc = "start"
    /\ resampled' \in ResampleTimeseries(frame, interval, how)
    /\ rule' = [interval |-> interval, how |-> how]
    /\ rpc' = "done"
    /\ UNCHANGED frame
    /\ UNCHANGED <<clientVars, parseVars, queryVars>>

NextResample ==
    rpc = "start" /\ \E interval \in ResampleIntervals, how \in Aggregators :
                        Resample(interval, how)

InitResample == ClientInit /\ ParseIdle /\ ResampleInit /\ QueryIdle

SpecResample == InitResample /\ [][NextResample]_vars

(***************************************************************************)
(* The request parameters (API_Calls.py).  A text the code inspects        *)
(* character by character is a sequence of characters.                     *)
(***************************************************************************)
Whitespace == {" "}

\* The characters str.isdigit() accepts: the decimal digits, and digits of
\* other kinds such as the superscript two.
DecimalDigits == {"0", "1", "5"}
OtherDigits == {"²"}

RECURSIVE LStrip(_)
LStrip(s) == IF s # <<>> /\ Head(s) \in Whitespace THEN LStrip(Tail(s)) ELSE s

RECURSIVE RStrip(_)
RStrip(s) ==
    IF s # <<>> /\ s[Len(s)] \in Whitespace THEN RStrip(SubSeq(s, 1, Len(s) - 1)) ELSE s

\* str.strip()
Strip(s) == RStrip(LStrip(s))

\* A test that accepts the decimal digits alone (str.isdecimal on ASCII).
IsDecimalOnly(s) == s # <<>> /\ \A i \in 1 .. Len(s) : s[i] \in DecimalDigits

\* str.isdigit()
IsDigit(s) == s # <<>> /\ \A i \in 1 .. Len(s) : s[i] \in DecimalDigits \cup OtherDigits

\* iv = interval_value.strip(); if not iv.isdigit(): iv = "0"
IntervalOf(interval_value) ==
    IF IsDigit(Strip(interval_value)) THEN Strip(interval_value) ELSE <<"0">>

\* x or default, for texts
OrText(x, default) == IF x # "" THEN x ELSE default

\* build_api_params(...)
BuildApiParams(a) ==
    [built |-> TRUE,
     start_date |-> a.start_date,
     end_date |-> a.end_date,
     interval_value |-> IntervalOf(a.interval_value),
     interval_unit |-> OrText(a.interval_unit, "minute"),
     datasets |-> a.datasets,
     output_unit |-> OrText(a.output_unit, "Amp"),
     coincidental_peaks |-> a.coincidental_peaks,
     multi_phase |-> a.multi_phase,
     multi_phase_average |-> IF a.multi_phase THEN a.multi_phase_average ELSE FALSE]

NoParams == [built |-> FALSE]

(***************************************************************************)
(* execute_query(cfg, params): with the PI Web API client library present  *)
(* (sdk "ok", or "error" when making the client raises) it answers from    *)
(* the stub without an HTTP request; without it (sdk "none") it sends one  *)
(* GET, and an exception of it becomes status 500.                         *)
(***************************************************************************)
StubText == [kind |-> "prose"]

ExecuteQuery(sdk, reply) ==
    IF sdk = "ok" THEN [status |-> 200, body |-> StubText, requests |-> 0]
    ELSE IF sdk = "error" THEN [status |-> 500, body |-> StubText, requests |-> 0]
    ELSE IF reply.exc THEN [status |-> 500, body |-> [kind |-> "prose"], requests |-> 1]
    ELSE [status |-> reply.status, body |-> reply.body, requests |-> 1]

\* parse_iso(s): the day of a "YYYY-MM-DD" text, 0 when strptime raises.
ParseIso(s) == IF s = Day1 THEN 1 ELSE IF s = Day2 THEN 2 ELSE 0

Shown(what) == [kind |-> "dialog", what |-> what, cols |-> {}, rows |-> <<>>]
QueryRaised(what) == [kind |-> "raised", what |-> what, cols |-> {}, rows |-> <<>>]
QueryReturned(f) == [kind |-> "returned", what |-> "", cols |-> f.cols, rows |-> f.rows]

\* DeviceShuttleApp.run_query, up to the request: the dialog that ends it
\* early, or "" when the query goes out.
Rejection(f) ==
    IF ParseIso(f.start_date) = 0 \/ ParseIso(f.end_date) = 0 THEN "Invalid date"
    ELSE IF ParseIso(f.start_date) > ParseIso(f.end_date) THEN "Invalid range"
    ELSE ""

\* The arguments run_query hands to build_api_params.
GuiArgs(f) ==
    [f EXCEPT !.interval_value = Strip(f.interval_value),
              !.interval_unit = OrText(f.interval_unit, "minute")]

\* run_and_plot after build_api_params: fetch, resample when a rule is
\* given, plot.
ResampleStep(f, resample_rule) ==
    IF f.raised # "none" THEN {f}
    ELSE IF resample_rule = 0 THEN {f}
    ELSE ResampleTimeseries([cols |-> f.cols, rows |-> f.rows], resample_rule, "mean")

\* plot_timeseries raises on an empty frame and on one without timestamp
\* and value.
PlotStep(f) ==
    IF f.raised # "none" THEN QueryRaised(f.raised)
    ELSE IF IsEmpty(f) THEN QueryRaised("ValueError")
    ELSE IF ~({"timestamp", "value"} \subseteq f.cols) THEN QueryRaised("ValueError")
    ELSE QueryReturned(f)

RunAndPlotOutcomes(p, answer, resample_rule) ==
    { PlotStep(r) :
        r \in UNION { ResampleStep(f, resample_rule) :
                        f \in FetchToDataframe(answer.status, answer.body, p.datasets,
                                               p.output_unit) } }

(***************************************************************************)
(* The values the entry points are given, and the provider's answers.      *)
(***************************************************************************)
IntervalValues ==
    { <<>>, <<"1", "5">>, <<"0">>, <<"-", "5">>, <<"1", ".", "5">>, <<"x">>,
      <<" ", "1", "5", " ">>, <<" ">>, <<"²">>, <<"5", "²">> }

FormOptions ==
    { [interval_unit |-> "", datasets |-> <<>>, output_unit |-> ""],
      [interval_unit |-> "hour", datasets |-> <<"Average">>, output_unit |-> "Amp"],
      [interval_unit |-> "minute", datasets |-> <<"Minimum", "Maximum">>,
       output_unit |-> "MVW"] }

\* The form of the window after _build_ui: both Multi Phase flags off and the
\* Average checkbox disabled.
GuiForms ==
    { [entry |-> "run_query", start_date |-> s, end_date |-> t, interval_value |-> iv,
       interval_unit |-> o.interval_unit, datasets |-> o.datasets,
       output_unit |-> o.output_unit, coincidental_peaks |-> FALSE,
       multi_phase |-> FALSE, multi_phase_average |-> FALSE, average_enabled |-> FALSE,
       resample_rule |-> 0] :
        s \in {Day1, Day2, NotADate}, t \in {Day1, Day2, NotADate},
        iv \in IntervalValues, o \in FormOptions }

\* The arguments of a call of run_and_plot: any flags.
CallForms ==
    { [entry |-> "run_and_plot", start_date |-> s, end_date |-> t, interval_value |-> iv,
       interval_unit |-> o.interval_unit, datasets |-> o.datasets,
       output_unit |-> o.output_unit, coincidental_peaks |-> FALSE,
       multi_phase |-> mp, multi_phase_average |-> mpa, average_enabled |-> FALSE,
       resample_rule |-> r] :
        s \in {Day1, Day2, NotADate}, t \in {Day1, Day2, NotADate},
        iv \in IntervalValues, o \in FormOptions,
        mp \in BOOLEAN, mpa \in BOOLEAN, r \in {0, 1} }

Forms == GuiForms \cup CallForms

QueryReplies ==
    { [exc |-> TRUE, status |-> 0, body |-> [kind |-> "empty"]],
      [exc |-> FALSE, status |-> 500, body |-> [kind |-> "prose"]],
      [exc |-> FALSE, status |-> 200, body |-> [kind |-> "prose"]],
      [exc |-> FALSE, status |-> 200,
       body |-> JsonDict([Items |-> << [Timestamp |-> Str(Day2), Value |-> Num(60)],
                                       [Timestamp |-> Str(Day1), Value |-> Num(120)] >>])],
      [exc |-> FALSE, status |-> 200,
       body |-> JsonDict([Items |-> << [Timestamp |-> Str(NotADate), Value |-> Num(60)] >>])] }

SdkStates == {"none", "ok", "error"}

QueryInit ==
    /\ qpc = "start"
    /\ form \in Forms
    /\ params = NoParams
    /\ nHttp = 0
    /\ outcome = [kind |-> "none"]

\* A Multi Phase checkbox that leaves the Average flag as it is.
ToggleMultiPhaseKeepsAverage ==
    /\ qpc = "start"
    /\ form.entry = "run_query"
    /\ form' = [form EXCEPT !.multi_phase = ~form.multi_phase,
                            !.average_enabled = ~form.multi_phase]
    /\ UNCHANGED <<qpc, params, nHttp, outcome>>
    /\ UNCHANGED <<clientVars, parseVars, resampleVars>>

\* A click on Multi Phase: the checkbox flips var_multi_phase and calls
\* _toggle_multi_avg, which enables Average or clears and disables it.
ToggleMultiPhase ==
    /\ qpc = "start"
    /\ form.entry = "run_query"
    /\ form' = [form EXCEPT !.multi_phase = ~form.multi_phase,
                            !.multi_phase_average =
                                IF ~form.multi_phase THEN form.multi_phase_average ELSE FALSE,
                            !.average_enabled = ~form.multi_phase]
    /\ UNCHANGED <<qpc, params, nHttp, outcome>>
    /\ UNCHANGED <<clientVars, parseVars, resampleVars>>

\* A click on Average: a disabled checkbox takes no click.
ToggleAverage ==
    /\ qpc = "start"
    /\ form.entry = "run_query"
    /\ form.average_enabled
    /\ form' = [form EXCEPT !.multi_phase_average = ~form.multi_phase_average]
    /\ UNCHANGED <<qpc, params, nHttp, outcome>>
    /\ UNCHANGED <<clientVars, parseVars, resampleVars>>

\* DeviceShuttleApp.run_query
RunQuery(sdk, reply) ==
    /\ qpc = "start"
    /\ form.entry = "run_query"
    /\ qpc' = "done"
    /\ IF Rejection(form) # ""
       THEN /\ outcome' = Shown(Rejection(form))
            /\ UNCHANGED <<params, nHttp>>
       ELSE /\ params' = BuildApiParams(GuiArgs(form))
            /\ nHttp' = nHttp + ExecuteQuery(sdk, reply).requests
            /\ outcome' = Shown(IF ExecuteQuery(sdk, reply).status = 200
                                THEN "Success" ELSE "Error")
    /\ UNCHANGED form
    /\ UNCHANGED <<clientVars, parseVars, resampleVars>>

\* run_and_plot
RunAndPlot(sdk, reply) ==
    /\ qpc = "start"
    /\ form.entry = "run_and_plot"
    /\ qpc' = "done"
    /\ params' = BuildApiParams(form)
    /\ nHttp' = nHttp + ExecuteQuery(sdk, reply).requests
    /\ outcome' \in RunAndPlotOutcomes(BuildApiParams(form), ExecuteQuery(sdk, reply),
                                       form.resample_rule)
    /\ UNCHANGED form
    /\ UNCHANGED <<clientVars, parseVars, resampleVars>>

NextQuery ==
    \/ qpc = "start" /\ \E sdk \in SdkStates, reply \in QueryReplies : RunQuery(sdk, reply)
    \/ qpc = "start" /\ \E sdk \in SdkStates, reply \in QueryReplies : RunAndPlot(sdk, reply)
    \/ ToggleMultiPhase
    \/ ToggleAverage

InitQuery == ClientInit /\ ParseIdle /\ ResampleIdle /\ QueryInit

SpecQuery == InitQuery /\ [][NextQuery]_vars

(***************************************************************************)
(* Properties of the tag resolver and the time-series client.              *)
(***************************************************************************)

\* Two characters that differ at most in their case.
SameLetter(a, b) ==
    \/ a = b
    \/ {a, b} \in { {"F", "f"}, {"O", "o"}, {"B", "b"}, {"A", "a"} }

\* Two strings that are equal case-insensitively.
SameIgnoringCase(x, y) ==
    /\ Len(x) = Len(y)
    /\ \A i \in 1 .. Len(x) : SameLetter(x[i], y[i])

\* The positions of the candidates named like the tag, case-insensitively.
Matching(tag, items) ==
    { i \in 1 .. Len(items) : items[i].hasName /\ SameIgnoringCase(items[i].Name, tag) }

\* The candidate the resolver is to take: the first match, else the first.
Preferred(tag, items) ==
    IF Matching(tag, items) # {}
    THEN items[CHOOSE i \in Matching(tag, items) : \A j \in Matching(tag, items) : i <= j]
    ELSE items[1]

Usable(it) == it.hasWebId /\ it.WebId # ""

\* get_point_webid has just handled a successful reply to its point lookup.
LookupAnswered ==
    pc = "done" /\ call.op = "get_point_webid" /\ nLookup = 1 /\ got.kind = "ok"

\* C1: for a non-empty candidate list, get_point_webid returns the identifier
\* of the first candidate named like the tag case-insensitively, and of the
\* first candidate when there is none.
C1_ExactMatchElseFirst ==
    (LookupAnswered /\ ItemsOf(lastReply) # <<>>) =>
        LET sel == Preferred(call.tag, ItemsOf(lastReply))
        IN  /\ result.kind = "ok" => result.webid = sel.WebId
            /\ Usable(sel) => result.kind = "ok"

\* A later candidate of another casing than the tag is preferred to the first.
C1_Witness ==
    /\ LookupAnswered
    /\ Len(ItemsOf(lastReply)) = 2
    /\ Matching(call.tag, lastReply.Items) = {2}
    /\ lastReply.Items[2].Name # call.tag
    /\ Usable(lastReply.Items[1])
    /\ result.kind = "ok"
    /\ result.webid = lastReply.Items[2].WebId
    /\ result.webid # lastReply.Items[1].WebId

\* C2: after a successful reply get_point_webid raises PINotFound exactly
\* when the candidate list is empty or the selected candidate has no usable
\* WebId, and returns a non-empty identifier otherwise.
C2_NotFoundExactly ==
    LookupAnswered =>
        LET items == ItemsOf(lastReply)
            unusable == items = <<>> \/ ~Usable(Preferred(call.tag, items))
        IN  /\ result.kind \in {"ok", "PINotFound"}
            /\ result.kind = "PINotFound" <=> unusable
            /\ result.kind = "ok" => result.ret = "webid" /\ result.webid # ""

\* The selected candidate carries no WebId although another candidate does.
C2_Witness ==
    /\ LookupAnswered
    /\ Len(ItemsOf(lastReply)) = 2
    /\ Matching(call.tag, lastReply.Items) = {2}
    /\ Usable(lastReply.Items[1])
    /\ ~lastReply.Items[2].hasWebId
    /\ result.kind = "PINotFound"

\* C3 as claimed: the resolver cache never evicts.
C3_NeverEvicts == [][\A k \in CacheKeys : k \in CacheKeys']_vars

\* C3: the cache holds at most LruMaxsize entries over all instances; an
\* entry keeps its identifier while cached, and leaves the cache only as the
\* least recently used entry of a full cache into which a new key is stored;
\* a call for a cached key gets the cached identifier with no point lookup.
C3_LruRetention ==
    [][ /\ Len(cache') <= LruMaxsize
        /\ \A i \in 1 .. Len(cache) :
              IF cache[i].key \in CacheKeys'
              THEN \E j \in 1 .. Len(cache') : cache'[j] = cache[i]
              ELSE /\ i = 1
                   /\ Len(cache) = LruMaxsize
                   /\ pc = "lookup"
                   /\ <<call.c, call.tag>> \in CacheKeys' \ CacheKeys
        /\ (pc = "idle" /\ <<call'.c, call'.tag>> \in CacheKeys) =>
              /\ pc' # "lookup"
              /\ nLookup' = 0
              /\ \E i \in 1 .. Len(cache) :
                    /\ cache[i].key = <<call'.c, call'.tag>>
                    /\ IF pc' = "done"
                       THEN result'.kind = "ok" /\ result'.webid = cache[i].webid
                       ELSE req'.webid = cache[i].webid
      ]_vars

\* A name resolved earlier is answered from the full cache, on either instance.
C3_Witness ==
    /\ pc = "done"
    /\ call.op = "get_point_webid"
    /\ nLookup = 0
    /\ result.kind = "ok"
    /\ Len(cache) = LruMaxsize
    /\ \E i \in 1 .. Len(cache) : cache[i].key[1] # call.c

\* C4: the cache is keyed by the tag as given: a call whose (instance, tag)
\* is not cached sends a point lookup whatever other casings are cached, a
\* resolved lookup stores its own entry, and every casing of the tag resolves
\* the same candidate list to the same outcome when the list holds a
\* case-insensitive match.
C4_KeyedByExactString ==
    /\ [][ /\ (pc = "idle" /\ pc' # "idle" /\ <<call'.c, call'.tag>> \notin CacheKeys) =>
                pc' = "lookup" /\ nLookup' = 1 /\ req'.nameFilter = call'.tag
           /\ (pc = "lookup" /\ result'.kind = "ok") =>
                /\ <<call.c, call.tag>> \notin CacheKeys
                /\ \E j \in 1 .. Len(cache') :
                      cache'[j] = [key |-> <<call.c, call.tag>>, webid |-> result'.webid]
         ]_vars
    /\ [](LookupAnswered /\ Matching(call.tag, ItemsOf(lastReply)) # {} =>
            \A t \in Tags :
                SameIgnoringCase(t, call.tag) =>
                    /\ Resolve(t, got).kind = result.kind
                    /\ Resolve(t, got).webid = result.webid)

\* Both casings of a tag are cached side by side with the identifier of a
\* candidate spelled in a third way.
C4_Witness ==
    /\ LookupAnswered
    /\ call.tag = <<"f", "o">>
    /\ Len(ItemsOf(lastReply)) = 2
    /\ Matching(call.tag, lastReply.Items) = {2}
    /\ lastReply.Items[2].Name = <<"F", "o">>
    /\ result.kind = "ok"
    /\ result.webid # lastReply.Items[1].WebId
    /\ Len(cache) = 2
    /\ cache[1] = [key |-> <<1, <<"F", "O">> >>, webid |-> result.webid]
    /\ cache[2] = [key |-> <<1, <<"f", "o">> >>, webid |-> result.webid]

\* C5 as claimed: a 2xx reply returns the decoded JSON, a 404 raises
\* PINotFound, and every other status and every transport exception raises
\* the generic PIWebAPIError.
C5_OutcomeByStatus ==
    (pc = "done" /\ (nLookup = 1 \/ nStream = 1) /\ got.kind # "none") =>
        IF lastReply.exc THEN got.kind = "PIWebAPIError"
        ELSE IF 200 <= lastReply.status /\ lastReply.status < 300
             THEN lastReply.json =>
                    got = [kind |-> "ok", hasItems |-> lastReply.hasItems,
                           Items |-> lastReply.Items]
        ELSE IF lastReply.status = 404 THEN got.kind = "PINotFound"
        ELSE got.kind = "PIWebAPIError"

\* C6: a call issues at most one point lookup and at most one stream
\* request, and is never waiting for a request again after a reply to it was
\* handled.
C6_NoRetries ==
    /\ nLookup <= 1
    /\ nStream <= 1
    /\ pc \in {"lookup", "stream"} => got.kind \in {"none", "ok"}
    /\ pc = "lookup" => got.kind = "none"

\* A call whose point lookup succeeded and whose stream request failed.
C6_Witness ==
    /\ pc = "done"
    /\ nLookup = 1
    /\ nStream = 1
    /\ result.kind = "PIWebAPIError"
    /\ lastReply.exc

(***************************************************************************)
(* Properties of the response normalizer and the fetch.                    *)
(***************************************************************************)
IsJsonDict(t) == t.kind = "json" /\ t.doc.top = "dict"

\* No parsing strategy has anything to recognize in the payload.
Unrecognizable(t) ==
    \/ t.kind \in {"empty", "prose"}
    \/ t.kind = "json" /\ t.doc.top # "dict"
    \/ IsJsonDict(t) /\ DOMAIN t.doc.obj \cap {"Items", "Timestamps", "Values"} = {}
    \/ t.kind = "csv" /\ \/ \A c \in t.header : c \notin {"timestamp", "Time"}
                         \/ \A c \in t.header : c \notin {"value", "Value"}

\* C7: the normalizer never raises: whatever the input text (JSON of any
\* shape, invalid JSON, CSV, arbitrary text), _parse_pi_response_to_df
\* returns a row collection, and the collection is empty when no strategy
\* recognizes the input.
C7_NormalizerNeverRaises ==
    ppc = "parsed" =>
        /\ parsed.raised = FALSE
        /\ Unrecognizable(text) => parsed.rows = <<>>

\* A paired-arrays payload whose arrays differ in length made the JSON step
\* raise, and the normalizer returned the empty collection.
C7_Witness ==
    /\ ppc = "parsed"
    /\ IsJsonDict(text)
    /\ {"Timestamps", "Values"} \subseteq DOMAIN text.doc.obj
    /\ Len(text.doc.obj.Timestamps) # Len(text.doc.obj.Values)
    /\ JsonStep(text).raised
    /\ parsed.raised = FALSE
    /\ parsed.rows = <<>>

\* A nested-Items response: a list of outer series, one at least with its
\* own "Items".
IsNestedResponse(t) ==
    /\ IsJsonDict(t)
    /\ "Items" \in DOMAIN t.doc.obj
    /\ \E i \in 1 .. Len(t.doc.obj.Items) : "Items" \in DOMAIN t.doc.obj.Items[i]

\* The inner items of the series have a timestamp and a value field after
\* renaming.
HasTimestampAndValue(series) ==
    /\ "Items" \in DOMAIN series
    /\ LET keys == UNION { DOMAIN series.Items[i] : i \in 1 .. Len(series.Items) }
       IN  {"timestamp", "value"} \subseteq { Canonical(k) : k \in keys }

RECURSIVE ExpectedRows(_)
ExpectedRows(seriesList) ==
    IF seriesList = <<>> THEN 0
    ELSE (IF HasTimestampAndValue(Head(seriesList)) THEN Len(Head(seriesList).Items) ELSE 0)
         + ExpectedRows(Tail(seriesList))

\* C8: for every nested-Items response the number of rows the normalizer
\* outputs is the sum of the inner-item counts over exactly the outer series
\* whose inner items have a timestamp and a value field after renaming; a
\* series lacking either contributes nothing, whichever its position in the
\* outer list.
C8_RowCountAnyPosition ==
    ppc = "parsed" /\ IsNestedResponse(text) =>
        Len(parsed.rows) = ExpectedRows(text.doc.obj.Items)

\* A paired-arrays response with arrays of the same length: no list of items
\* beside the arrays.
IsPairedResponse(t) ==
    /\ IsJsonDict(t)
    /\ {"Timestamps", "Values"} \subseteq DOMAIN t.doc.obj
    /\ "Items" \in DOMAIN t.doc.obj => t.doc.obj.Items = <<>>
    /\ Len(t.doc.obj.Timestamps) = Len(t.doc.obj.Values)

\* C9: for every paired-arrays response with Timestamps and Values of the
\* same length N the normalizer outputs exactly N rows, row i pairs
\* Timestamps[i] with Values[i], and every row's tag is the shared top-level
\* series name (Name, else Label, else Path; no name when none is given).
C9_PairedRows ==
    ppc = "parsed" /\ IsPairedResponse(text) =>
        LET obj == text.doc.obj
            names == SelectSeq(<<DictGet(obj, "Name"), DictGet(obj, "Label"),
                                 DictGet(obj, "Path")>>, Truthy)
        IN  /\ Len(parsed.rows) = Len(obj.Timestamps)
            /\ \A i \in 1 .. Len(parsed.rows) :
                 /\ parsed.rows[i].timestamp = obj.Timestamps[i]
                 /\ parsed.rows[i].value = obj.Values[i]
                 /\ IF names # <<>> THEN parsed.rows[i].tag = names[1]
                    ELSE ~Truthy(parsed.rows[i].tag)

\* Two paired samples named by the Label, the Name being empty.
C9_Witness ==
    /\ ppc = "parsed"
    /\ IsPairedResponse(text)
    /\ "Label" \in DOMAIN text.doc.obj
    /\ Len(text.doc.obj.Timestamps) = 2
    /\ Len(parsed.rows) = 2
    /\ parsed.rows[2].tag = Str("L")

\* A flat-Items response whose items carry a timestamp and a value field and
\* neither a name nor a unit field.
IsPlainFlatResponse(t) ==
    /\ IsJsonDict(t)
    /\ "Items" \in DOMAIN t.doc.obj
    /\ t.doc.obj.Items # <<>>
    /\ \A i \in 1 .. Len(t.doc.obj.Items) : DOMAIN t.doc.obj.Items[i] = {"Timestamp", "Value"}

\* The normalizer's own result: one row per item, in order, no tag, no unit.
OneRowPerItem(items, f) ==
    /\ Len(f.rows) = Len(items)
    /\ \A i \in 1 .. Len(items) :
         /\ f.rows[i].timestamp = items[i].Timestamp
         /\ f.rows[i].value = items[i].Value
    /\ "tag" \notin f.cols
    /\ "unit" \notin f.cols

Fetched200(t) == ppc = "fetched" /\ fetchArgs.status = 200 /\ IsPlainFlatResponse(t)

\* C10 as stated: for every flat-Items response whose items carry a
\* timestamp and a value and no name and no unit, the result has one row per
\* item with that item's timestamp and value and carries no tag and no unit,
\* at the fetch boundary as well as in the normalizer's own result.
C10_NoTagNoUnitAtFetch ==
    /\ ppc = "parsed" /\ IsPlainFlatResponse(text) =>
          OneRowPerItem(text.doc.obj.Items, parsed)
    /\ Fetched200(text) =>
          LET items == text.doc.obj.Items
          IN  /\ fetched.raised = "none"
              /\ Len(fetched.rows) = Len(items)
              /\ \A i \in 1 .. Len(fetched.rows) :
                   /\ fetched.rows[i].timestamp = ToDatetime(items[i].Timestamp)
                   /\ fetched.rows[i].value = items[i].Value
              /\ "tag" \notin fetched.cols
              /\ "unit" \notin fetched.cols

\* C10: the normalizer's own result has one row per item with that item's
\* timestamp and value, no tag and no unit.  At the fetch boundary the rows
\* carry no tag, they carry the requested output unit as their unit exactly
\* when one is requested, and they are the items whose timestamp parses,
\* sorted by timestamp.
C10_FlatRowsUnitFallback ==
    /\ ppc = "parsed" /\ IsPlainFlatResponse(text) =>
          OneRowPerItem(text.doc.obj.Items, parsed)
    /\ Fetched200(text) =>
          LET Parses(item) == ToDatetime(item.Timestamp).t = "time"
              kept == SelectSeq(text.doc.obj.Items, Parses)
              n == Len(kept)
          IN  /\ fetched.raised = "none"
              /\ "tag" \notin fetched.cols
              /\ "unit" \in fetched.cols <=> fetchArgs.output_unit # ""
              /\ Len(fetched.rows) = n
              /\ \E p \in Perms(n) : \A i \in 1 .. n :
                   /\ fetched.rows[i].timestamp = ToDatetime(kept[p[i]].Timestamp)
                   /\ fetched.rows[i].value = kept[p[i]].Value
              /\ \A i \in 1 .. n :
                   /\ "unit" \in fetched.cols =>
                        fetched.rows[i].unit = Str(fetchArgs.output_unit)
                   /\ \A j \in 1 .. n :
                        i < j => fetched.rows[i].timestamp.n <= fetched.rows[j].timestamp.n

\* A fetch of two plain flat items, one with a timestamp that does not parse,
\* with "Amp" requested: one row is delivered and it carries the unit.
C10_Witness ==
    /\ Fetched200(text)
    /\ fetchArgs.output_unit = "Amp"
    /\ Len(text.doc.obj.Items) = 2
    /\ Len(fetched.rows) = 1
    /\ "unit" \in fetched.cols
    /\ fetched.rows[1].unit = Str("Amp")

(***************************************************************************)
(* Properties of the fetch, the resampling and the request parameters.     *)
(***************************************************************************)
\* C11: fetch_to_dataframe never returns a zero-row result: when no row is
\* left after parsing and after dropping the rows whose timestamp does not
\* parse, it raises the validation error instead of returning.
C11_NeverZeroRows ==
    ppc = "fetched" /\ fetched.raised = "none" => fetched.rows # <<>>

\* The start date of the form is strictly after its end date.
StartAfterEnd(f) ==
    /\ ParseIso(f.start_date) > 0
    /\ ParseIso(f.end_date) > 0
    /\ ParseIso(f.start_date) > ParseIso(f.end_date)

\* C12: every start/end pair with the start date strictly after the end date
\* is rejected before any network call: on every entry point that executes
\* a query (run_query, run_and_plot) no HTTP request is issued.
C12_RejectedBeforeRequest ==
    qpc = "done" /\ StartAfterEnd(form) => nHttp = 0

\* C13: resample_timeseries is a no-op on unusable input: when the input is
\* empty, or lacks the timestamp column and the value column, the result has
\* the rows and the columns of the input and no error is raised.
C13_NoOpOnUnusableInput ==
    rpc = "done" /\ (IsEmpty(frame) \/ {"timestamp", "value"} \cap frame.cols = {}) =>
        /\ resampled.raised = "none"
        /\ resampled.cols = frame.cols
        /\ resampled.rows = frame.rows

\* A frame of two rows without timestamp and value came back as it was.
C13_Witness ==
    /\ rpc = "done"
    /\ {"timestamp", "value"} \cap frame.cols = {}
    /\ Len(frame.rows) = 2
    /\ resampled.raised = "none"
    /\ resampled.rows = frame.rows

\* The input row is in the partition and in the window of the output row.
Contributes(in, out, gkeys, interval) ==
    /\ \A k \in gkeys : in[k] = out[k]
    /\ Bin(in.timestamp.n, interval) * interval = out.timestamp.n

\* C14: resample_timeseries emits an output row only for a window that holds
\* at least one input row of its partition: a window without a sample
\* between the first and the last sample of a partition gives no output row,
\* for every aggregator.
C14_NoRowForEmptyWindow ==
    rpc = "done" /\ resampled.raised = "none" /\ ~IsEmpty(frame)
        /\ {"timestamp", "value"} \subseteq frame.cols =>
        \A i \in 1 .. Len(resampled.rows) :
            \E j \in 1 .. Len(frame.rows) :
                Contributes(frame.rows[j], resampled.rows[i], GroupKeys(frame),
                            rule.interval)

\* The interval_value argument the entry point hands to build_api_params.
GivenInterval ==
    IF form.entry = "run_query" THEN Strip(form.interval_value) ELSE form.interval_value

\* C15: every APIParams built by build_api_params has an interval_value that
\* is a string of decimal digits denoting a non-negative integer: an interval
\* input that is not such a string is replaced by "0", a valid one is kept
\* as given.
C15_IntervalIsDigits ==
    qpc = "done" /\ params.built =>
        /\ IsDecimalOnly(params.interval_value)
        /\ IF IsDecimalOnly(GivenInterval)
           THEN params.interval_value = GivenInterval
           ELSE params.interval_value = <<"0">>

(***************************************************************************)
(* Further properties of the tag resolver and the time-series client.      *)
(***************************************************************************)
\* The resolution of the running call has just failed.
ResolutionFailed == pc = "done" /\ nLookup = 1 /\ nStream = 0 /\ result.kind # "ok"

\* C16: failed resolutions are not cached: after get_point_webid has failed
\* for a name (not found or transport error) the cache is as it was and
\* holds no entry for the name, the next resolution of the name (of any name
\* without an entry) sends a fresh provider lookup, and that lookup can
\* succeed.
C16_FailuresNotCached ==
    /\ [](ResolutionFailed =>
             /\ Key(call.c, call.tag) \notin CacheKeys
             /\ \E reply \in LookupReplies :
                  Resolve(call.tag, Get(reply, FALSE)).kind = "ok")
    /\ [][/\ pc = "lookup" /\ pc' = "done" /\ result'.kind # "ok" => cache' = cache
          /\ pc = "idle" /\ pc' # "idle" /\ Key(call'.c, call'.tag) \notin CacheKeys =>
                /\ pc' = "lookup"
                /\ nLookup' = 1
                /\ req' = [endpoint |-> "points", webid |-> "", nameFilter |-> call'.tag]]_vars

\* A resolution failed with not-found while the cache holds the entry of
\* another resolution.
C16_Witness ==
    /\ ResolutionFailed
    /\ result.kind = "PINotFound"
    /\ cache # <<>>
    /\ Key(call.c, call.tag) \notin CacheKeys

StreamOps == {"arc_val", "recorded", "interpolated", "summary"}

\* C17: each of arc_val, recorded, interpolated and summary resolves the tag
\* before it issues its stream request, and the stream request uses the
\* resolved identifier; when the resolution fails the operation fails with
\* that error and no stream request is issued.
C17_ResolveBeforeStream ==
    /\ pc = "lookup" => nStream = 0
    /\ nStream > 0 =>
          /\ call.op \in StreamOps
          /\ req.endpoint = Endpoint(call.op)
          /\ req.webid # ""
          /\ Key(call.c, call.tag) \in CacheKeys
          /\ cache[CacheIndex(Key(call.c, call.tag))].webid = req.webid
    /\ pc = "done" /\ call.op \in StreamOps /\ nStream = 0 =>
          /\ nLookup = 1
          /\ req.endpoint = "points"
          /\ result.kind = (IF got.kind # "ok" THEN got.kind ELSE "PINotFound")
          /\ result.kind \in {"PINotFound", "PIWebAPIError", "ValueError"}

\* summary missed the cache, resolved the tag and got its stream answered
\* under the resolved identifier.
C17_Witness ==
    /\ pc = "done"
    /\ call.op = "summary"
    /\ nLookup = 1
    /\ nStream = 1
    /\ result.kind = "ok"
    /\ result.webid = req.webid
    /\ req.webid # ""

(***************************************************************************)
(* Further properties of the response normalizer and the fetch.            *)
(***************************************************************************)
\* What each strategy makes of the text on its own; a strategy that fails
\* makes no row of it.
NestedRows(t) == IF IsJsonDict(t) THEN NestedVariant(t.doc.obj).rows ELSE <<>>

FlatRows(t) == IF IsJsonDict(t) THEN FlatVariant(t.doc.obj).rows ELSE <<>>

PairedRows(t) ==
    IF IsJsonDict(t) /\ {"Timestamps", "Values"} \subseteq DOMAIN t.doc.obj
    THEN Swallow(PairedFrame(t.doc.obj)).rows ELSE <<>>

CsvRows(t) == Swallow(CsvStep(t)).rows

HasRows(rows) == rows # <<>>

\* C18: the normalizer tries its strategies in the fixed order nested Items,
\* flat Items, paired Timestamps/Values, CSV, and returns the result of the
\* first strategy that yields at least one row; a later strategy's result is
\* returned only when every earlier one failed or yielded no row, so the
\* rows are never the CSV reading of a text that a JSON strategy turned into
\* rows.
C18_FirstStrategyWithRows ==
    ppc = "parsed" =>
        LET yielding == SelectSeq(<<NestedRows(text), FlatRows(text), PairedRows(text),
                                    CsvRows(text)>>, HasRows)
        IN  IF yielding = <<>> THEN parsed.rows = <<>> ELSE parsed.rows = yielding[1]

\* An outer series with inner items and a sample of its own, beside paired
\* arrays: all three JSON strategies make rows of it, each other rows, and
\* the rows returned are the nested ones.
C18_Witness ==
    /\ ppc = "parsed"
    /\ NestedRows(text) # <<>>
    /\ FlatRows(text) # <<>>
    /\ PairedRows(text) # <<>>
    /\ FlatRows(text) # NestedRows(text)
    /\ PairedRows(text) # NestedRows(text)
    /\ parsed.rows = NestedRows(text)


\* A nested-Items response of one outer series whose inner items all have a
\* timestamp and a value: output row i comes from inner item i.
IsOneSeriesResponse(t) ==
    /\ IsJsonDict(t)
    /\ "Items" \in DOMAIN t.doc.obj
    /\ Len(t.doc.obj.Items) = 1
    /\ "Items" \in DOMAIN t.doc.obj.Items[1]
    /\ t.doc.obj.Items[1].Items # <<>>
    /\ \A i \in 1 .. Len(t.doc.obj.Items[1].Items) :
         {"Timestamp", "Value"} \subseteq DOMAIN t.doc.obj.Items[1].Items[i]

\* The fields of an inner item that name its tag, unit or aggregation kind.
OwnFields(item, cols) == { k \in DOMAIN item : Canonical(k) \in cols }

\* Output row i has, in each of the columns, the value inner item i carries
\* for it.
KeepsOwn(items, rows, cols) ==
    /\ Len(rows) = Len(items)
    /\ \A i \in 1 .. Len(items) : \A k \in OwnFields(items[i], cols) :
         rows[i][Canonical(k)] = items[i][k]

\* C19: in a nested-Items response the outer series' name, unit and
\* aggregation kind are attached to an inner row only when that row does not
\* already carry its own: an inner row that has its own tag (or unit, or
\* stat) field keeps its own value in the output.
C19_InnerRowKeepsOwn ==
    ppc = "parsed" /\ IsOneSeriesResponse(text) =>
        KeepsOwn(text.doc.obj.Items[1].Items, parsed.rows, {"tag", "unit", "stat"})


\* C20: every row collection returned by fetch_to_dataframe is sorted
\* ascending by timestamp and contains no row whose timestamp could not be
\* parsed, whichever response shape (nested Items, flat Items, paired arrays,
\* CSV) produced it.
C20_SortedAndParsed ==
    ppc = "fetched" /\ fetched.raised = "none" =>
        /\ "timestamp" \in fetched.cols
        /\ \A i \in 1 .. Len(fetched.rows) : fetched.rows[i].timestamp.t = "time"
        /\ \A i, j \in 1 .. Len(fetched.rows) :
             i < j => fetched.rows[i].timestamp.n <= fetched.rows[j].timestamp.n

\* Two data rows of a CSV text, the later day first and a name column beside
\* them, came back in ascending order.
C20_Witness ==
    /\ ppc = "fetched"
    /\ fetched.raised = "none"
    /\ text.kind = "csv"
    /\ "Time" \in text.header
    /\ Len(text.rows) = 2
    /\ text.rows[1].Time = Str(Day2)
    /\ text.rows[2].Time = Str(Day1)
    /\ Len(fetched.rows) = 2
    /\ fetched.rows[1].timestamp = Time(1)
    /\ fetched.rows[2].timestamp = Time(2)


(***************************************************************************)
(* Properties of the stat stamping, the partitions of the resampling, the  *)
(* multi-phase flags and the cap of recorded.                              *)
(***************************************************************************)
\* The rows the normalizer made of the text whose timestamp parses.
KeptRows(t) == DropNaTimestamp(CoerceTimestamp(ParsePiResponseToDf(t))).rows

\* Every row has the stat.
AllStat(rows, stat) == \A i \in 1 .. Len(rows) : rows[i].stat = stat

\* The rows are the kept rows in some order, each with the stat it had.
SameStats(rows, kept) ==
    /\ Len(rows) = Len(kept)
    /\ \E p \in Perms(Len(kept)) : \A i \in 1 .. Len(kept) :
         /\ rows[i].timestamp = kept[p[i]].timestamp
         /\ rows[i].value = kept[p[i]].value
         /\ rows[i].stat = kept[p[i]].stat

\* C21: when the parsed rows carry no stat and the request named exactly
\* one aggregation kind, fetch_to_dataframe stamps every row with that kind;
\* when more than one kind was requested the rows' stat is left unset (no
\* kind is guessed); when the rows already carry a stat it is never
\* overwritten.
C21_StatStamping ==
    ppc = "fetched" /\ fetched.raised = "none" =>
        IF "stat" \in ParsePiResponseToDf(text).cols
        THEN "stat" \in fetched.cols /\ SameStats(fetched.rows, KeptRows(text))
        ELSE IF Len(fetchArgs.datasets) = 1
        THEN "stat" \in fetched.cols /\ AllStat(fetched.rows, Str(fetchArgs.datasets[1]))
        ELSE IF Len(fetchArgs.datasets) > 1
        THEN "stat" \in fetched.cols /\ AllStat(fetched.rows, NA)
        ELSE "stat" \notin fetched.cols

\* Two rows without a stat, fetched for the one kind Average, both stamped
\* with it.
C21_Witness ==
    /\ ppc = "fetched"
    /\ fetched.raised = "none"
    /\ "stat" \notin ParsePiResponseToDf(text).cols
    /\ fetchArgs.datasets = <<"Average">>
    /\ Len(fetched.rows) = 2
    /\ AllStat(fetched.rows, Str("Average"))


\* The output rows of the partition and window of an input row.
WindowsOf(r, out, gkeys, interval) ==
    { i \in 1 .. Len(out) :
        /\ KeyOf(out[i], gkeys) = KeyOf(r, gkeys)
        /\ out[i].timestamp = Time(Bin(r.timestamp.n, interval) * interval) }

\* C22: resample_timeseries partitions without losing rows: for every
\* non-empty input with timestamp and value columns the call returns, every
\* input row is counted in exactly one output window of its partition (its
\* combination of the tag and stat values present, an unset stat included),
\* and each output row is stamped with the tag and stat of a partition of the
\* input; rows whose stat is unset, as fetch_to_dataframe returns them for a
\* request of several kinds, are resampled without error and are not dropped.
C22_NoRowLost ==
    rpc = "done" /\ ~IsEmpty(frame) /\ {"timestamp", "value"} \subseteq frame.cols =>
        /\ resampled.raised = "none"
        /\ \A i \in 1 .. Len(frame.rows) :
             Cardinality(WindowsOf(frame.rows[i], resampled.rows, GroupKeys(frame),
                                   rule.interval)) = 1
        /\ \A j \in 1 .. Len(resampled.rows) : \E i \in 1 .. Len(frame.rows) :
             KeyOf(resampled.rows[j], GroupKeys(frame)) = KeyOf(frame.rows[i], GroupKeys(frame))


\* C23: multi-phase-average is never set without multi-phase: in every
\* APIParams built by build_api_params, and in the GUI state after any
\* sequence of toggles of the Multi Phase and Average checkboxes,
\* multi_phase_average = true implies multi_phase = true; switching Multi
\* Phase off resets the dependent Average flag to false.
C23_AverageNeedsMultiPhase ==
    /\ params.built => (params.multi_phase_average => params.multi_phase)
    /\ form.entry = "run_query" =>
          /\ form.multi_phase_average => form.multi_phase
          /\ form.average_enabled <=> form.multi_phase
    /\ params.built /\ form.entry = "run_query" =>
          /\ params.multi_phase = form.multi_phase
          /\ params.multi_phase_average = form.multi_phase_average

\* The GUI ran its query after Multi Phase and then Average were switched
\* on: both flags are in the parameters.
C23_Witness ==
    /\ qpc = "done"
    /\ form.entry = "run_query"
    /\ form.multi_phase
    /\ form.multi_phase_average
    /\ params.built
    /\ params.multi_phase
    /\ params.multi_phase_average


\* recorded has sent its stream request.
RecordedSent == call.op = "recorded" /\ nStream > 0 /\ req.endpoint = "recorded"

\* C24: whenever the caller gives max_points to recorded (any integer value,
\* 0 included) the provider request carries that cap as its maximum count;
\* the request carries no cap exactly when max_points is not given.
C24_CapWheneverGiven ==
    RecordedSent =>
        /\ req.maxCount.present <=> call.max_points.given
        /\ call.max_points.given => req.maxCount.n = call.max_points.n

====
